---- MODULE Spec2Model ----
(***************************************************************************)
(* The RSS bridge of 13x-tech/relayer: the entity store, the feed cache,   *)
(* the synthesis of events from feed items, the poller goroutine started   *)
(* by Relay.Init and the synchronous query path store.QueryEvents, both    *)
(* of which read and write the lastEmitted watermark map; the feed locator *)
(* and the registration of a feed; the /og/ endpoint with FetchMetaData    *)
(* and the metadata cache with its deletion timers.                        *)
(*                                                                         *)
(* A point in time is the pair [hi, lo] that stands for the epoch second   *)
(* hi * 2^32 + lo with 0 <= lo < 2^32, so that the conversion to uint32    *)
(* (keep lo, drop hi) is exact.                                            *)
(***************************************************************************)
EXTENDS Integers, Sequences, FiniteSets, TLC

VARIABLES db, feedCache, lastEmitted, now, poller, emitted, delivered,
          lastFilter, result,
          og, mdCache, clock, ogLog, lastDelete, reg,
          pf, fetches, note, str, config, verdict

vars == <<db, feedCache, lastEmitted, now, poller, emitted, delivered,
          lastFilter, result, og, mdCache, clock, ogLog, lastDelete, reg,
          pf, fetches, note, str, config, verdict>>

\* the state of the bridge: store, feed cache, watermarks, poller, queries
bridgeVars == <<db, feedCache, lastEmitted, now, poller, emitted, delivered,
                lastFilter, result>>

\* the state of the /og/ endpoint: the requests in progress, the metadata
\* cache, the clock of its timers, and the records of the last finished
\* request and of the last deletion
metaVars == <<og, mdCache, clock, ogLog, lastDelete>>

\* the records of single calls: the last call of parseFeed and the number of
\* fetches of each feed URL, the last text note synthesized from an item, the
\* last string a URL function was applied to, the configuration of the two
\* allowlist relays and the last decision of AcceptEvent
callVars == <<pf, fetches, note, str, config, verdict>>

\* ------------------------------------------------------------------ bounds
MaxFeedLen == 2
MaxNow == 3

\* --------------------------------------------------------------- constants
KindSetMetadata == 0
KindTextNote == 1

\* -------------------------------------------------------------------- time
T(h, l) == [hi |-> h, lo |-> l]

Before(a, b) == a.hi < b.hi \/ (a.hi = b.hi /\ a.lo < b.lo)

After(a, b) == Before(b, a)

\* an optional value (a nil-able pointer) is <<>> or <<v>>
Nil == <<>>

Some(v) == <<v>>

\* the first clock reading of the model
StartNow == T(0, 2)

\* --------------------------------------------------------------- universe
\* pk1 is the key of the registered feed u1; no entity is ever stored for pk2
Pubkeys == {"pk1", "pk2"}

URLs == {"u1"}

Entity(sk, url) == [PrivateKey |-> sk, URL |-> url]

NoEntity == [PrivateKey |-> "", URL |-> ""]

\* the feed items an origin may serve: published only; published and a later
\* updated; neither
ItemUniverse ==
    { [id |-> 1, PublishedParsed |-> Some(T(0, 1)), UpdatedParsed |-> Nil],
      [id |-> 2, PublishedParsed |-> Some(T(0, 2)), UpdatedParsed |-> Some(T(0, 3))],
      [id |-> 3, PublishedParsed |-> Nil, UpdatedParsed |-> Nil] }

RECURSIVE SeqsOver(_, _)
SeqsOver(S, n) ==
    IF n = 0 THEN {<<>>}
    ELSE LET shorter == SeqsOver(S, n - 1)
         IN  shorter \cup {Append(s, x) : s \in {t \in shorter : Len(t) = n - 1}, x \in S}

Range(s) == {s[i] : i \in 1..Len(s)}

Distinct(s) == Cardinality(Range(s)) = Len(s)

Feeds == {s \in SeqsOver(ItemUniverse, MaxFeedLen) : Distinct(s)}

\* what the origin answers to one fetch of a feed URL: a feed, or a failure
\* (transport error, timeout, status, malformed document)
OriginStates == [ok : {TRUE}, Items : Feeds] \cup {[ok |-> FALSE, Items |-> <<>>]}

NoFeed == [present |-> FALSE, Items |-> <<>>]

\* a value of the lastEmitted sync.Map: absent, or an interface value that
\* holds a uint32 or an int64 (hi * 2^32 + lo)
NoValue == [typ |-> "nil", hi |-> 0, lo |-> 0]

Uint32Value(n) == [typ |-> "uint32", hi |-> 0, lo |-> n]

\* uint32(t.Unix()): the low 32 bits of the epoch second
Uint32(t) == t.lo

\* time.Unix(int64(n), 0) of a uint32 n
UnixOfUint32(n) == T(0, n)

\* ----------------------------------------------------------------- strings
\* a header value or a media type is the sequence of its pieces, so that
\* strings.Contains is the test for a contiguous subsequence
TextHtml == <<"text/", "html">>

ApplicationXhtml == <<"application/", "xhtml+", "xml">>

ApplicationXml == <<"application/", "xml">>

ApplicationJson == <<"application/", "json">>

ApplicationRss == <<"application/", "rss+", "xml">>

\* strings.Contains(s, sub)
Contains(s, sub) ==
    \E i \in 0..(Len(s) - Len(sub)) : SubSeq(s, i + 1, i + Len(sub)) = sub

\* -------------------------------------------------------------------- URLs
\* a parsed URL (net/url.URL): scheme, host and the segments of the path
ParsedURL(path) == [scheme |-> "https", host |-> "example.com", path |-> path]

RECURSIVE PathString(_)
PathString(segs) ==
    IF segs = <<>> THEN "" ELSE "/" \o Head(segs) \o PathString(Tail(segs))

\* URL.String()
UrlString(u) == u.scheme \o "://" \o u.host \o PathString(u.path)

Paths == {<<>>, <<"blog">>, <<"feed.xml">>, <<"rss">>, <<"blog", "feed.xml">>}

ParsedURLs == {ParsedURL(p) : p \in Paths}

\* url.Parse
UrlParse(s) == CHOOSE u \in ParsedURLs : UrlString(u) = s

\* path.Clean of a path given by its segments
RECURSIVE PathClean(_, _)
PathClean(segs, out) ==
    IF segs = <<>> THEN out
    ELSE LET h == Head(segs)
         IN  IF h = "" \/ h = "." THEN PathClean(Tail(segs), out)
             ELSE IF h = ".."
             THEN PathClean(Tail(segs),
                            IF out = <<>> THEN out ELSE SubSeq(out, 1, Len(out) - 1))
             ELSE PathClean(Tail(segs), Append(out, h))

\* path.Join(a, b): the two joined by a slash, then cleaned
PathJoin(a, b) == PathClean(a \o b, <<>>)

\* the href of a feed link of a page: none, the root-relative /feed.xml, or
\* an absolute URL
NoHref == [abs |-> FALSE, text |-> "", segs |-> <<>>]

RootHref == [abs |-> FALSE, text |-> "/feed.xml", segs |-> <<"feed.xml">>]

AbsHref == [abs |-> TRUE, text |-> UrlString(ParsedURL(<<"feed.xml">>)), segs |-> <<>>]

\* urljoin(baseUrl, href)
urljoin(baseUrl, href) ==
    LET u == UrlParse(baseUrl)
    IN  UrlString([u EXCEPT !.path = PathJoin(u.path, href.segs)])

\* the locators a caller registers: two pages and two feeds
PageURLs == {UrlString(ParsedURL(p)) : p \in {<<>>, <<"blog">>}}

SiteURLs == PageURLs \cup {UrlString(ParsedURL(p)) : p \in {<<"feed.xml">>, <<"rss">>}}

\* the feed URLs a registration of SiteURLs can arrive at
FeedURLs == {UrlString(u) : u \in ParsedURLs}

\* ------------------------------------------------------------- identities
\* privateKeyFromFeed: the HMAC of the feed URL, one key per URL
privateKeyFromFeed(url) == IF url = "u1" THEN "sk1" ELSE "sk:" \o url

\* the private keys that are no valid scalar of the curve
InvalidKeys == {privateKeyFromFeed(UrlString(ParsedURL(<<"rss">>)))}

\* nostr.GetPublicKey returns an error
GetPublicKeyFails(sk) == sk \in InvalidKeys

\* nostr.GetPublicKey
GetPublicKey(sk) == IF sk = "sk1" THEN "pk1" ELSE "pk:" \o sk

\* the keys under which the feeds of FeedURLs are stored
FeedPubkeys == {GetPublicKey(privateKeyFromFeed(u)) : u \in FeedURLs}

\* the feeds registered by Relay.Init (rssStart)
rssStart == <<"u1">>

\* -------------------------------------------------------------- synthesis
\* a resolution that takes the later of the two times of the item
ResolveCreatedAt_Latest(item, t) ==
    IF item.PublishedParsed # Nil /\ item.UpdatedParsed # Nil
    THEN IF Before(item.PublishedParsed[1], item.UpdatedParsed[1])
         THEN item.UpdatedParsed[1] ELSE item.PublishedParsed[1]
    ELSE IF item.PublishedParsed # Nil THEN item.PublishedParsed[1]
    ELSE IF item.UpdatedParsed # Nil THEN item.UpdatedParsed[1]
    ELSE t

ResolveCreatedAt(item, t) ==
    LET c0 == t
        c1 == IF item.UpdatedParsed # Nil THEN item.UpdatedParsed[1] ELSE c0
        c2 == IF item.PublishedParsed # Nil THEN item.PublishedParsed[1] ELSE c1
    IN  c2

itemToTextNote(pubkey, item, t) ==
    [PubKey |-> pubkey, CreatedAt |-> ResolveCreatedAt(item, t),
     Kind |-> KindTextNote, Content |-> item.id, Sig |-> ""]

\* the profile event of an entity; its timestamp is an input
feedToSetMetadata(pubkey, mdTime) ==
    [PubKey |-> pubkey, CreatedAt |-> mdTime,
     Kind |-> KindSetMetadata, Content |-> 0, Sig |-> ""]

Sign(evt, sk) == [evt EXCEPT !.Sig = sk]

\* evt.Sign(sk) with its result dropped: when Sign returns an error (ok is
\* FALSE) the event stays as it was
SignOrNot(evt, sk, ok) == IF ok THEN Sign(evt, sk) ELSE evt

\* -------------------------------------------------------------- feed cache
\* a fetch that never fails
parseFeedOk_Always(c, url, fetch) == TRUE

\* parseFeed(url) against a cache c, where fetch[url] is what the origin
\* answers if it is asked: a hit returns the cached feed, a miss fetches the
\* origin and stores the feed, a failed fetch stores nothing
parseFeedOk(c, url, fetch) == c[url].present \/ fetch[url].ok

\* a parseFeed that returns what the origin answers, cached or not
parseFeedItems_Origin(c, url, fetch) == fetch[url].Items

parseFeedItems(c, url, fetch) ==
    IF c[url].present THEN c[url].Items ELSE fetch[url].Items

\* a parseFeed that stores what a failed fetch left
parseFeedCache_StoreFailure(c, url, fetch) ==
    IF c[url].present THEN c
    ELSE [c EXCEPT ![url] = [present |-> TRUE, Items |-> fetch[url].Items]]

parseFeedCache(c, url, fetch) ==
    IF c[url].present \/ ~fetch[url].ok THEN c
    ELSE [c EXCEPT ![url] = [present |-> TRUE, Items |-> fetch[url].Items]]

\* the answers the origins can give to the fetches of one operation; a URL
\* whose feed is cached is not asked
NotAsked == [ok |-> FALSE, Items |-> <<>>]

FetchChoices(c) ==
    {f \in [URLs -> OriginStates] : \A u \in URLs : c[u].present => f[u] = NotAsked}

\* feed items with timestamps on both sides of the range of a uint32: second
\* 1, the time of the synthesis, second 2^32 + 1 and second -2^32 + 5
WideItemUniverse ==
    { [id |-> 1, PublishedParsed |-> Some(T(0, 1)), UpdatedParsed |-> Nil],
      [id |-> 3, PublishedParsed |-> Nil, UpdatedParsed |-> Nil],
      [id |-> 4, PublishedParsed |-> Some(T(1, 1)), UpdatedParsed |-> Nil],
      [id |-> 5, PublishedParsed |-> Some(T(-1, 5)), UpdatedParsed |-> Nil] }

WideFeeds == {s \in SeqsOver(WideItemUniverse, MaxFeedLen) : Distinct(s)}

WideFetchChoices(c) ==
    {f \in [URLs -> [ok : {TRUE}, Items : WideFeeds] \cup {NotAsked}] :
        \A u \in URLs : c[u].present => f[u] = NotAsked}

\* ------------------------------------------------------------------ filters
\* a nostr.Filter: IDs and Tags are kept as "is set" flags
MkFilter(ids, tags, authors, kinds, since, until) ==
    [IDs |-> ids, Tags |-> tags, Authors |-> authors, Kinds |-> kinds,
     Since |-> since, Until |-> until]

NoFilter == MkFilter(FALSE, FALSE, <<>>, Nil, Nil, Nil)

KindChoices == {Nil, Some({KindSetMetadata}), Some({KindTextNote}),
                Some({KindSetMetadata, KindTextNote})}

SinceChoices == {Nil, Some(T(0, 2))}

UntilChoices == {Nil, Some(T(0, 1)), Some(T(0, 2))}

\* the timestamps a profile event may carry
MdTimes == {T(0, 1), T(0, 3)}

\* the filters a client may query with
QueryFilters ==
    {MkFilter(FALSE, FALSE, <<"pk2", "pk1">>, k, s, u) :
        k \in KindChoices, s \in SinceChoices, u \in UntilChoices}
    \cup {MkFilter(TRUE, FALSE, <<"pk1">>, Nil, Nil, Nil),
          MkFilter(FALSE, TRUE, <<"pk1">>, Nil, Nil, Nil)}

\* the query that runs next to the poller: the text notes of pk1 up to
\* second 1
PollerQueryFilters ==
    {MkFilter(FALSE, FALSE, <<"pk1">>, Some({KindTextNote}), Nil, Some(T(0, 1)))}

\* the queries for the text notes of pk1 over the wide feeds: no range, and
\* up to second 2^32
WideQueryFilters ==
    {MkFilter(FALSE, FALSE, <<"pk1">>, Some({KindTextNote}), Nil, u) :
        u \in {Nil, Some(T(1, 0))}}

\* the queries that run next to the poller when Sign may fail: the profile
\* and the text notes of pk1, and its text notes up to second 1
SignQueryFilters ==
    {MkFilter(FALSE, FALSE, <<"pk1">>, Nil, Nil, Nil),
     MkFilter(FALSE, FALSE, <<"pk1">>, Some({KindTextNote}), Nil, Some(T(0, 1)))}

\* the filters of the open subscriptions, as relayer.GetListeningFilters
\* returns them
ListeningFilter(authors, kinds) == MkFilter(FALSE, FALSE, authors, kinds, Nil, Nil)

\* no subscription; one for pk1; one for the profile of pk1 only; two, the
\* first for pk2, which has no entity, the second for pk1
ListeningFilterLists ==
    {<<>>,
     <<ListeningFilter(<<"pk1">>, Nil)>>,
     <<ListeningFilter(<<"pk1">>, Some({KindSetMetadata}))>>,
     <<ListeningFilter(<<"pk2">>, Some({KindTextNote})), ListeningFilter(<<"pk1">>, Nil)>>}

\* ------------------------------------------------------------- QueryEvents
KindWanted(filter, kind) == filter.Kinds = Nil \/ kind \in filter.Kinds[1]

\* the profile event is built only for a filter that wants its kind and has
\* no ids and no tags
MdTimesFor(filter) ==
    IF ~filter.IDs /\ ~filter.Tags /\ KindWanted(filter, KindSetMetadata)
    THEN MdTimes ELSE {T(0, 0)}

BeforeSince(filter, evt) ==
    filter.Since # Nil /\ Before(evt.CreatedAt, filter.Since[1])

\* the until test left out
AfterUntil_Off(filter, evt) == FALSE

AfterUntil(filter, evt) ==
    filter.Until # Nil /\ After(evt.CreatedAt, filter.Until[1])

\* the running maximum kept in "last" (a uint32) by the text-note loop
NextLast(last, evt) ==
    IF After(evt.CreatedAt, UnixOfUint32(last)) THEN Uint32(evt.CreatedAt) ELSE last

\* the loop over feed.Items of the text-note branch
RECURSIVE TextNoteLoop(_, _, _, _, _, _, _, _)
TextNoteLoop(pubkey, sk, items, filter, t, last, evts, ok) ==
    IF items = <<>> THEN [evts |-> evts, last |-> last]
    ELSE LET evt == itemToTextNote(pubkey, Head(items), t)
         IN  IF BeforeSince(filter, evt) \/ AfterUntil(filter, evt)
             THEN TextNoteLoop(pubkey, sk, Tail(items), filter, t, last, evts, ok)
             ELSE TextNoteLoop(pubkey, sk, Tail(items), filter, t,
                               NextLast(last, evt),
                               Append(evts, SignOrNot(evt, sk, ok)), ok)

\* the body of the loop over filter.Authors for one pubkey; acc carries the
\* events collected so far, the feed cache and the watermark map
QueryAuthor(pubkey, filter, mdTime, t, fetch, ok, acc) ==
    IF db[pubkey] = NoEntity THEN acc
    ELSE LET entity == db[pubkey]
             url == entity.URL
         IN  IF ~parseFeedOk(acc.cache, url, fetch) THEN acc
             ELSE LET items == parseFeedItems(acc.cache, url, fetch)
                      cache2 == parseFeedCache(acc.cache, url, fetch)
                      md == feedToSetMetadata(pubkey, mdTime)
                      wantsMd == KindWanted(filter, KindSetMetadata)
                      evts1 == IF wantsMd
                               THEN Append(acc.evts, SignOrNot(md, entity.PrivateKey, ok))
                               ELSE acc.evts
                  IN  IF wantsMd /\ (BeforeSince(filter, md) \/ AfterUntil(filter, md))
                      THEN [acc EXCEPT !.cache = cache2]
                      ELSE IF KindWanted(filter, KindTextNote)
                      THEN LET r == TextNoteLoop(pubkey, entity.PrivateKey, items,
                                                 filter, t, 0, evts1, ok)
                           IN  [evts |-> r.evts, cache |-> cache2,
                                last |-> [acc.last EXCEPT ![url] = Uint32Value(r.last)]]
                      ELSE [acc EXCEPT !.evts = evts1, !.cache = cache2]

RECURSIVE QueryAuthors(_, _, _, _, _, _, _)
QueryAuthors(authors, filter, mdTime, t, fetch, ok, acc) ==
    IF authors = <<>> THEN acc
    ELSE QueryAuthors(Tail(authors), filter, mdTime, t, fetch, ok,
                      QueryAuthor(Head(authors), filter, mdTime, t, fetch, ok, acc))

\* store.QueryEvents(filter); ok is the outcome of the Sign calls
QueryEvents(filter, mdTime, fetch, ok) ==
    /\ poller.pc # "none"
    /\ lastFilter' = filter
    /\ IF filter.IDs \/ filter.Tags
       THEN /\ result' = <<>>
            /\ UNCHANGED <<feedCache, lastEmitted>>
       ELSE LET r == QueryAuthors(filter.Authors, filter, mdTime, now, fetch, ok,
                                  [evts |-> <<>>, cache |-> feedCache, last |-> lastEmitted])
            IN  /\ result' = r.evts
                /\ feedCache' = r.cache
                /\ lastEmitted' = r.last
    /\ UNCHANGED <<db, now, poller, emitted, delivered>>
    /\ UNCHANGED <<metaVars, reg, callVars>>

\* ------------------------------------------------------------ registration
\* the content types that getFeedURL takes for a feed
types ==
    {<<"rss+", "xml">>, <<"atom+", "xml">>, <<"feed+", "json">>,
     <<"text/", "xml">>, ApplicationXml}

\* what the origin answers to the GET of a locator: ok is "no error and a
\* status below 300"; href is the feed link of an HTML page
FailedGet == [ok |-> FALSE, ct |-> <<>>, href |-> NoHref]

FeedResponse == [ok |-> TRUE, ct |-> ApplicationRss, href |-> NoHref]

HtmlResponses ==
    {[ok |-> TRUE, ct |-> TextHtml, href |-> h] : h \in {NoHref, RootHref, AbsHref}}

OtherResponse == [ok |-> TRUE, ct |-> ApplicationJson, href |-> NoHref]

\* the answers for a locator that is itself a feed
DirectResponses == {FailedGet, FeedResponse}

\* pages are served as HTML or something else, feeds as feeds
SiteResponses(url) ==
    IF url \in PageURLs THEN {FailedGet, OtherResponse} \cup HtmlResponses
    ELSE DirectResponses

\* the record of the last call of Feed: its locator, the answer to the GET,
\* the feed URL it arrived at, whether that feed was cached or served by the
\* origin, and whether an entity was stored for that feed URL before
NoReg == [url |-> "", resp |-> FailedGet, feedurl |-> "", cached |-> FALSE,
          origin |-> FALSE, again |-> FALSE]

getFeedURL(url, get) ==
    LET resp == get[url]
    IN  IF ~resp.ok THEN ""
        ELSE IF \E typ \in types : Contains(resp.ct, typ) THEN url
        ELSE IF Contains(resp.ct, TextHtml)
        THEN IF resp.href = NoHref THEN ""
             ELSE IF resp.href.abs THEN resp.href.text
             ELSE urljoin(url, resp.href)
        ELSE ""

\* the entity holds the locator in the place of the feed URL
FeedEntity_SiteURL(sk, feedurl, url) == Entity(sk, url)

\* the entity that Feed marshals
FeedEntity(sk, feedurl, url) == Entity(sk, feedurl)

\* Feed(meta, db) against the store and the cache in acc
Feed(url, get, fetch, acc) ==
    LET feedurl == getFeedURL(url, get)
    IN  IF feedurl = "" THEN acc
        ELSE IF ~parseFeedOk(acc.cache, feedurl, fetch) THEN acc
        ELSE LET sk == privateKeyFromFeed(feedurl)
                 pubkey == GetPublicKey(sk)
                 cache2 == parseFeedCache(acc.cache, feedurl, fetch)
             IN  IF GetPublicKeyFails(sk) THEN [acc EXCEPT !.cache = cache2]
                 ELSE [db |-> [acc.db EXCEPT ![pubkey] = FeedEntity(sk, feedurl, url)],
                       cache |-> cache2]

RECURSIVE FeedAll(_, _, _, _)
FeedAll(urls, get, fetch, acc) ==
    IF urls = <<>> THEN acc
    ELSE FeedAll(Tail(urls), get, fetch, Feed(Head(urls), get, fetch, acc))

\* ------------------------------------------------------------------ poller
NoEvent == [PubKey |-> "", CreatedAt |-> T(0, 0), Kind |-> KindTextNote,
            Content |-> 0, Sig |-> ""]

PollerAt(pc, work) ==
    [pc |-> pc, work |-> work, feed |-> <<>>, i |-> 0, evt |-> NoEvent,
     last |-> NoValue]

\* Relay.Init: registers the feeds of rssStart and starts the goroutine that
\* sleeps and then makes one pass
RelayInit(get, fetch) ==
    /\ poller.pc \in {"none", "done"}
    /\ LET r == FeedAll(rssStart, get, fetch, [db |-> db, cache |-> feedCache])
       IN  /\ db' = r.db
           /\ feedCache' = r.cache
    /\ poller' = PollerAt("sleep", <<>>)
    /\ delivered' = delivered \cup emitted
    /\ emitted' = {}
    /\ UNCHANGED <<lastEmitted, now, lastFilter, result>>
    /\ UNCHANGED <<metaVars, reg, callVars>>

\* the pubkeys the two outer loops of the pass visit, in order
RECURSIVE PassAuthors(_)
PassAuthors(filters) ==
    IF filters = <<>> THEN <<>>
    ELSE LET filter == Head(filters)
         IN  IF KindWanted(filter, KindTextNote)
             THEN filter.Authors \o PassAuthors(Tail(filters))
             ELSE PassAuthors(Tail(filters))

\* the sleep ends: the pass reads the listening filters
PollWake(filters) ==
    /\ poller.pc = "sleep"
    /\ poller' = PollerAt("author", PassAuthors(filters))
    /\ UNCHANGED <<db, feedCache, lastEmitted, now, emitted, delivered,
                   lastFilter, result>>
    /\ UNCHANGED <<metaVars, reg, callVars>>

\* the loop over the authors: db.Get, json.Unmarshal, parseFeed; the
\* goroutine returns when no author is left
PollAuthor(fetch) ==
    /\ poller.pc = "author"
    /\ IF poller.work = <<>>
       THEN /\ poller' = PollerAt("done", <<>>)
            /\ UNCHANGED feedCache
       ELSE LET pubkey == Head(poller.work)
                url == db[pubkey].URL
            IN  IF db[pubkey] = NoEntity \/ ~parseFeedOk(feedCache, url, fetch)
                THEN /\ poller' = PollerAt("author", Tail(poller.work))
                     /\ UNCHANGED feedCache
                ELSE LET items == parseFeedItems(feedCache, url, fetch)
                     IN  /\ feedCache' = parseFeedCache(feedCache, url, fetch)
                         /\ poller' = IF items = <<>>
                                       THEN PollerAt("author", Tail(poller.work))
                                       ELSE [PollerAt("load", poller.work)
                                                EXCEPT !.feed = items, !.i = 1]
    /\ UNCHANGED <<db, lastEmitted, now, emitted, delivered, lastFilter, result>>
    /\ UNCHANGED <<metaVars, reg, callVars>>

\* the position after the item at poller.i
NextItem(p) ==
    IF p.i < Len(p.feed)
    THEN [PollerAt("load", p.work) EXCEPT !.feed = p.feed, !.i = p.i + 1]
    ELSE PollerAt("author", Tail(p.work))

\* itemToTextNote and lastEmitted.Load; a nil value skips the item
PollLoad ==
    /\ poller.pc = "load"
    /\ LET pubkey == Head(poller.work)
           url == db[pubkey].URL
           evt == itemToTextNote(pubkey, poller.feed[poller.i], now)
           last == lastEmitted[url]
       IN  poller' = IF last = NoValue THEN NextItem(poller)
                     ELSE [poller EXCEPT !.pc = "check", !.evt = evt, !.last = last]
    /\ UNCHANGED <<db, feedCache, lastEmitted, now, emitted, delivered,
                   lastFilter, result>>
    /\ UNCHANGED <<metaVars, reg, callVars>>

\* the time a stored value stands for
ValueTime(v) == T(v.hi, v.lo)

\* the eligibility test with "not after" in the place of "before"
Eligible_NotAfter(last64, createdAt) == ~After(last64, createdAt)

\* the eligibility test of the pass
Eligible(last64, createdAt) == Before(last64, createdAt)

\* the type switch on the loaded value and the test that follows it: ok is
\* the outcome of the uint32 assertion
PollEmits(last, createdAt) ==
    LET ok == last.typ = "uint32"
        last64 == ValueTime(last)
    IN  /\ last.typ \in {"uint32", "int64"}
        /\ (~ok \/ Eligible(last64, createdAt))

\* the test on the loaded value, Sign, the send on relay.updates and
\* lastEmitted.Store; ok is the outcome of the Sign call
PollCheck(ok) ==
    /\ poller.pc = "check"
    /\ LET pubkey == Head(poller.work)
           entity == db[pubkey]
           last == poller.last
       IN  IF PollEmits(last, poller.evt.CreatedAt)
           THEN /\ emitted' = emitted \cup
                       {[PubKey |-> pubkey, Content |-> poller.evt.Content,
                         Sig |-> SignOrNot(poller.evt, entity.PrivateKey, ok).Sig]}
                /\ lastEmitted' = [lastEmitted EXCEPT ![entity.URL] = last]
           ELSE UNCHANGED <<emitted, lastEmitted>>
    /\ poller' = NextItem(poller)
    /\ UNCHANGED <<db, feedCache, now, delivered, lastFilter, result>>
    /\ UNCHANGED <<metaVars, reg, callVars>>

\* ------------------------------------------------------------- environment
\* a cache entry reaches its lifetime of 19 minutes (or is evicted)
CacheExpire(u) ==
    /\ feedCache[u].present
    /\ feedCache' = [feedCache EXCEPT ![u] = NoFeed]
    /\ UNCHANGED <<db, lastEmitted, now, poller, emitted, delivered,
                   lastFilter, result>>
    /\ UNCHANGED <<metaVars, reg, callVars>>

\* a second passes
Tick ==
    /\ now.lo < MaxNow
    /\ now' = T(now.hi, now.lo + 1)
    /\ UNCHANGED <<db, feedCache, lastEmitted, poller, emitted, delivered,
                   lastFilter, result>>
    /\ UNCHANGED <<metaVars, reg, callVars>>

\* ---------------------------------------------------------------- metadata
\* the requests to /og/ that are in progress at once
MaxRequests == 2

\* the last reading of the clock of the deletion timers
MaxClock == 3

Requests == 1..MaxRequests

\* time.After(10 * time.Minute), in ticks of the clock
MdTTL == 2

\* the URLs extracted from the request paths
MdURLs == {"p1"}

\* the content types the HEAD may be answered with
ContentTypes ==
    {TextHtml \o <<"; charset=utf-8">>, ApplicationXhtml, ApplicationJson}

\* what the origin answers to the HEAD: a transport error or a response
HeadResponses ==
    {[err |-> TRUE, StatusCode |-> 0, ct |-> <<>>]}
    \cup [err : {FALSE}, StatusCode : {200, 404}, ct : ContentTypes]

\* what the origin answers to the GET: a transport error, or a response with
\* a status and a body that goquery reads or fails to read
GetResponses ==
    {[err |-> TRUE, StatusCode |-> 0, doc |-> FALSE]}
    \cup [err : {FALSE}, StatusCode : {200}, doc : BOOLEAN]
    \cup [err : {FALSE}, StatusCode : {404, 500}, doc : {TRUE}]

NoHead == [err |-> FALSE, StatusCode |-> 0, ct |-> <<>>]

NoGet == [err |-> FALSE, StatusCode |-> 0, doc |-> FALSE]

\* the error values of FetchMetaData
NoError == [kind |-> "nil", code |-> 0]

ErrTransport == [kind |-> "transport", code |-> 0]

ErrInvalidFormat == [kind |-> "invalid format", code |-> 0]

ErrStatus(n) == [kind |-> "status code", code |-> n]

ErrDocument == [kind |-> "document", code |-> 0]

\* the Timeout field of http.DefaultClient (zero: no timeout) and of the
\* client of the feed locator
DefaultClientTimeout == Nil

client == Some(5)

\* every content type passes
HeadAccepted_Any(res) == TRUE

\* the switch on the content type of the HEAD response
HeadAccepted(res) ==
    \/ Contains(res.ct, TextHtml)
    \/ Contains(res.ct, ApplicationXhtml)
    \/ Contains(res.ct, ApplicationXml)

\* FetchMetaData from the answer to the HEAD to the second request
AfterHead(res) ==
    IF res.err THEN ErrTransport
    ELSE IF ~HeadAccepted(res) THEN ErrInvalidFormat
    ELSE NoError

\* FetchMetaData from the answer to the GET to its return
AfterGet(res) ==
    IF res.err THEN ErrTransport
    ELSE IF res.StatusCode # 200 THEN ErrStatus(res.StatusCode)
    ELSE IF ~res.doc THEN ErrDocument
    ELSE NoError

\* the test for the 404 left out
IsNotFound_Off(err) == FALSE

\* strings.Contains(err.Error(), "status code 404 error")
IsNotFound(err) == err.kind = "status code" /\ err.code = 404

\* the status the handler writes for an error of FetchMetaData
ErrorStatus(err) == IF IsNotFound(err) THEN 404 ELSE 400

\* the body that goes with a status
BodyOf(status) ==
    IF status = 200 THEN "record" ELSE IF status = 404 THEN "text" ELSE "error"

\* a request slot: the handler and the goroutine it starts
OgIdle == [pc |-> "idle", url |-> "", head |-> NoHead, timeout |-> Nil,
           written |-> <<>>, due |-> 0]

NoEntry == [present |-> FALSE, by |-> 0, at |-> 0]

\* the record of a finished request: what it was answered by the origin, how
\* many GETs FetchMetaData issued, its error, and what the handler wrote
LogOf(url, hit, head, get, gets, err, written) ==
    [url |-> url, hit |-> hit, head |-> head, get |-> get,
     gets |-> gets, err |-> err, written |-> written,
     body |-> BodyOf(written[Len(written)])]

NoLog == [url |-> "", hit |-> FALSE, head |-> NoHead, get |-> NoGet,
          gets |-> 0, err |-> NoError, written |-> <<>>, body |-> ""]

\* the record of the last deletion: whether the key held an entry of another
\* request than the one whose timer fired, and the age of that entry
NoDelete == [stale |-> FALSE, age |-> 0]

\* the handler up to the HEAD of FetchMetaData: the lookup under the read
\* lock answers a cached URL, an uncached one goes to the origin
OgRequest(r, url) ==
    /\ og[r].pc = "idle"
    /\ IF mdCache[url].present
       THEN /\ ogLog' = LogOf(url, TRUE, NoHead, NoGet, 0, NoError, <<200>>)
            /\ og' = [og EXCEPT ![r] = OgIdle]
       ELSE /\ og' = [og EXCEPT ![r] = [OgIdle EXCEPT !.pc = "head", !.url = url,
                                           !.timeout = DefaultClientTimeout]]
            /\ UNCHANGED ogLog
    /\ UNCHANGED <<mdCache, clock, lastDelete>>
    /\ UNCHANGED <<bridgeVars, reg, callVars>>

\* the origin answers the HEAD
OgHead(r, res) ==
    /\ og[r].pc = "head"
    /\ LET err == AfterHead(res)
           status == ErrorStatus(err)
       IN  IF err # NoError
           THEN /\ ogLog' = LogOf(og[r].url, FALSE, res, NoGet, 0, err,
                                  Append(og[r].written, status))
                /\ og' = [og EXCEPT ![r] = OgIdle]
           ELSE /\ og' = [og EXCEPT ![r].pc = "get", ![r].head = res,
                                    ![r].timeout = DefaultClientTimeout]
                /\ UNCHANGED ogLog
    /\ UNCHANGED <<mdCache, clock, lastDelete>>
    /\ UNCHANGED <<bridgeVars, reg, callVars>>

\* the origin answers the GET: FetchMetaData returns and the handler writes
\* its answer; after a 200 it starts the goroutine of the cache
OgGet(r, res) ==
    /\ og[r].pc = "get"
    /\ LET err == AfterGet(res)
           status == IF err # NoError THEN ErrorStatus(err) ELSE 200
       IN  /\ ogLog' = LogOf(og[r].url, FALSE, og[r].head, res, 1, err,
                             Append(og[r].written, status))
           /\ og' = IF err # NoError THEN [og EXCEPT ![r] = OgIdle]
                    ELSE [og EXCEPT ![r] = [OgIdle EXCEPT !.pc = "insert",
                                               !.url = og[r].url]]
    /\ UNCHANGED <<mdCache, clock, lastDelete>>
    /\ UNCHANGED <<bridgeVars, reg, callVars>>

\* the goroutine stores the record under the write lock and starts to wait
OgInsert(r) ==
    /\ og[r].pc = "insert"
    /\ mdCache' = [mdCache EXCEPT ![og[r].url] =
                      [present |-> TRUE, by |-> r, at |-> clock]]
    /\ og' = [og EXCEPT ![r].pc = "sleep", ![r].due = clock + MdTTL]
    /\ UNCHANGED <<clock, ogLog, lastDelete>>
    /\ UNCHANGED <<bridgeVars, reg, callVars>>

\* the timer of a request removes an entry only if that request stored it
DeleteAllowed_OwnEntry(entry, r) == entry.by = r

\* a timer that fires and removes nothing
DeleteAllowed_Never(entry, r) == FALSE

\* delete(relay.mdCache, url) asks nothing about the entry
DeleteAllowed(entry, r) == TRUE

\* the wait of the goroutine ends: it deletes the key under the write lock
OgDelete(r) ==
    /\ og[r].pc = "sleep"
    /\ clock >= og[r].due
    /\ LET url == og[r].url
           entry == mdCache[url]
       IN  /\ mdCache' = IF DeleteAllowed(entry, r)
                         THEN [mdCache EXCEPT ![url] = NoEntry]
                         ELSE mdCache
           /\ lastDelete' = [stale |-> entry.present /\ entry.by # r,
                             age |-> IF entry.present THEN clock - entry.at ELSE 0]
    /\ og' = [og EXCEPT ![r] = OgIdle]
    /\ UNCHANGED <<clock, ogLog>>
    /\ UNCHANGED <<bridgeVars, reg, callVars>>

\* ------------------------------------------------------ registration alone
\* the answers of the origins to the feed fetch of one registration: a
\* failure or an empty feed; a cached feed is not asked for
FeedFetchChoices(c) ==
    {f \in [FeedURLs -> {NotAsked, [ok |-> TRUE, Items |-> <<>>]}] :
        \A u \in FeedURLs : c[u].present => f[u] = NotAsked}

\* one call of Feed for the locator url
RegisterFeed(url, resp, fetch) ==
    /\ LET get == [u \in {url} |-> resp]
           feedurl == getFeedURL(url, get)
           r == Feed(url, get, fetch, [db |-> db, cache |-> feedCache])
       IN  /\ db' = r.db
           /\ feedCache' = r.cache
           /\ reg' = [url |-> url, resp |-> resp, feedurl |-> feedurl,
                      cached |-> feedurl # "" /\ feedCache[feedurl].present,
                      origin |-> feedurl # "" /\ fetch[feedurl].ok,
                      again |-> feedurl # "" /\ \E k \in DOMAIN db : db[k].URL = feedurl]
    /\ UNCHANGED <<lastEmitted, now, poller, emitted, delivered, lastFilter, result>>
    /\ UNCHANGED <<metaVars, callVars>>

\* the clock of the timers advances when no timer is due
MdTick ==
    /\ clock < MaxClock
    /\ \A r \in Requests : og[r].pc = "sleep" => og[r].due > clock
    /\ clock' = clock + 1
    /\ UNCHANGED <<og, mdCache, ogLog, lastDelete>>
    /\ UNCHANGED <<bridgeVars, reg, callVars>>

\* --------------------------------------------------------- parseFeed calls
\* the calls of parseFeed the model follows
MaxCalls == 3

\* a parseFeed that asks the origin on every call
parseFeedFetches_Always(c, url) == 1

\* the number of calls of fp.ParseURL one parseFeed(url) makes against a
\* cache c: none on a hit, one on a miss
parseFeedFetches(c, url) == IF c[url].present THEN 0 ELSE 1

\* before the first call
NoCall == [n |-> 0, url |-> "", hit |-> FALSE, ok |-> FALSE, Items |-> <<>>]

\* one call of parseFeed(url), where fetch[url] is what the origin answers if
\* it is asked; pf records the call and what it returned (the feed, or the
\* error with no feed), fetches counts the calls of fp.ParseURL
ParseFeedCall(url, fetch) ==
    /\ pf.n < MaxCalls
    /\ pf' = [n |-> pf.n + 1, url |-> url, hit |-> feedCache[url].present,
              ok |-> parseFeedOk(feedCache, url, fetch),
              Items |-> IF parseFeedOk(feedCache, url, fetch)
                        THEN parseFeedItems(feedCache, url, fetch) ELSE <<>>]
    /\ fetches' = [fetches EXCEPT ![url] = @ + parseFeedFetches(feedCache, url)]
    /\ feedCache' = parseFeedCache(feedCache, url, fetch)
    /\ UNCHANGED <<db, lastEmitted, now, poller, emitted, delivered,
                   lastFilter, result>>
    /\ UNCHANGED <<metaVars, reg, note, str, config, verdict>>

\* ------------------------------------------------------------ note content
\* A Go string is a sequence of pieces; the piece [s, lo, hi] is the bytes
\* lo .. hi - 1 of the string named s.  Lengths and slice bounds are counts
\* of bytes, as len and the slice expression of Go count them.
Piece(s, lo, hi) == IF hi > lo THEN <<[s |-> s, lo |-> lo, hi |-> hi]>> ELSE <<>>

\* a whole string of n bytes
Lit(s, n) == Piece(s, 0, n)

\* len(c)
RECURSIVE ByteLen(_)
ByteLen(c) == IF c = <<>> THEN 0 ELSE (c[1].hi - c[1].lo) + ByteLen(Tail(c))

\* c[a:b], for 0 <= a <= b <= len(c)
RECURSIVE Slice(_, _, _)
Slice(c, a, b) ==
    IF c = <<>> \/ b <= 0 THEN <<>>
    ELSE LET n == c[1].hi - c[1].lo
             from == IF a > 0 THEN a ELSE 0
             to == IF b < n THEN b ELSE n
         IN  Piece(c[1].s, c[1].lo + from, c[1].lo + to) \o Slice(Tail(c), a - n, b - n)

\* the horizontal ellipsis U+2026, three bytes in a Go string
Ellipsis == Lit("U+2026", 3)

\* strip.StripTags: the text of a description without its markup
StripTags(description) == Lit("text", description.text)

\* a truncation that keeps the first 249 bytes only
Truncate_Replace(content) ==
    IF ByteLen(content) > 250 THEN Slice(content, 0, 249) \o Ellipsis ELSE content

\* if len(content) > 250 { content += content[0:249] + ellipsis }
Truncate(content) ==
    IF ByteLen(content) > 250 THEN content \o Slice(content, 0, 249) \o Ellipsis
    ELSE content

\* the content of the text note of an item
TextNoteContent(item) ==
    LET c0 == IF item.Title # <<>>
              THEN Lit("**", 2) \o item.Title \o Lit("**\n\n", 4) ELSE <<>>
        c1 == c0 \o StripTags(item.Description)
    IN  Truncate(c1) \o Lit("\n\n", 2) \o item.Link

\* the lengths of the titles and of the description texts of the items: with
\* the title of 10 bytes the content before the link is 16 bytes longer than
\* the text
TitleLens == {0, 10}

TextLens == {0, 100, 234, 235, 250, 251, 300}

\* the items handed to itemToTextNote: published earlier or later than
\* updated, one of the two times only, or neither
SynthItems ==
    [id : {0},
     Title : {Lit("title", n) : n \in TitleLens},
     Description : [markup : {0, 7}, text : TextLens],
     Link : {Lit("link", 20)},
     PublishedParsed : {Nil, Some(T(0, 1)), Some(T(0, 5))},
     UpdatedParsed : {Nil, Some(T(0, 4))}]

\* no item was turned into a note yet
NoNote == Nil

\* itemToTextNote(pubkey, item) at the clock reading now
Synthesize(item) ==
    /\ note' = Some([item |-> item, t |-> now,
                     evt |-> [itemToTextNote("pk1", item, now)
                                 EXCEPT !.Content = TextNoteContent(item)]])
    /\ UNCHANGED bridgeVars
    /\ UNCHANGED <<metaVars, reg, pf, fetches, str, config, verdict>>

\* ------------------------------------------------------------- URL strings
\* A URL or a request path is a sequence of characters; the scheme word
\* "http" is kept as one character, every other text is made of "s", ":",
\* "/", "o", "g" and "x".
MaxStrLen == 5

\* strings.HasPrefix
HasPrefix(s, prefix) ==
    Len(s) >= Len(prefix) /\ SubSeq(s, 1, Len(prefix)) = prefix

\* strings.Index, counted from 1; 0 when old does not occur in s
Index(s, old) ==
    LET at == {i \in 1..(Len(s) - Len(old) + 1) : SubSeq(s, i, i + Len(old) - 1) = old}
    IN  IF at = {} THEN 0 ELSE CHOOSE i \in at : \A j \in at : i <= j

\* strings.Replace(s, old, new, 1)
ReplaceFirst(s, old, new) ==
    LET i == Index(s, old)
    IN  IF i = 0 THEN s
        ELSE SubSeq(s, 1, i - 1) \o new \o SubSeq(s, i + Len(old), Len(s))

\* a fixURL without its first test
fixURL_NoGuard(url) ==
    IF HasPrefix(url, <<"http", ":", "/">>)
    THEN ReplaceFirst(url, <<"http", ":", "/">>, <<"http", ":", "/", "/">>)
    ELSE IF HasPrefix(url, <<"http", "s", ":", "/">>)
    THEN ReplaceFirst(url, <<"http", "s", ":", "/">>, <<"http", "s", ":", "/", "/">>)
    ELSE url

fixURL(url) ==
    IF HasPrefix(url, <<"http", ":", "/", "/">>)
          \/ HasPrefix(url, <<"http", "s", ":", "/", "/">>)
    THEN url
    ELSE IF HasPrefix(url, <<"http", ":", "/">>)
    THEN ReplaceFirst(url, <<"http", ":", "/">>, <<"http", ":", "/", "/">>)
    ELSE IF HasPrefix(url, <<"http", "s", ":", "/">>)
    THEN ReplaceFirst(url, <<"http", "s", ":", "/">>, <<"http", "s", ":", "/", "/">>)
    ELSE url

\* strings.TrimLeft(s, cutset): s without its leading characters that are
\* in cutset
RECURSIVE TrimLeft(_, _)
TrimLeft(s, cutset) ==
    IF s # <<>> /\ s[1] \in cutset THEN TrimLeft(Tail(s), cutset) ELSE s

\* the second argument "/og/" of the TrimLeft of the handler, and the set
\* of its characters
OgPrefix == <<"/", "o", "g", "/">>

\* extractedURL := strings.TrimLeft(r.URL.Path, "/og/")
extractedURL(path) == TrimLeft(path, Range(OgPrefix))

\* the URLs handed to FetchMetaData and the targets requested under /og/
FixInputs == SeqsOver({"http", "s", ":", "/", "x"}, MaxStrLen)

Targets == SeqsOver({"o", "g", "/", "x"}, MaxStrLen)

\* no string function is applied
NoStr == [fn |-> "", in |-> <<>>, once |-> <<>>, out |-> <<>>]

StrInputs ==
    {[fn |-> f, in |-> s, once |-> <<>>, out |-> <<>>] :
        f \in {"url"}, s \in FixInputs}
    \cup {[fn |-> f, in |-> s, once |-> <<>>, out |-> <<>>] :
             f \in {"path"}, s \in {OgPrefix \o t : t \in Targets}}

\* FetchMetaData normalizes its URL for the HEAD request
FixForHead ==
    /\ str.fn = "url"
    /\ str' = [str EXCEPT !.fn = "head", !.once = fixURL(str.in),
                          !.out = fixURL(str.in)]
    /\ UNCHANGED bridgeVars
    /\ UNCHANGED <<metaVars, reg, pf, fetches, note, config, verdict>>

\* FetchMetaData normalizes the normalized URL again for the GET request
FixForGet ==
    /\ str.fn = "head"
    /\ str' = [str EXCEPT !.fn = "get", !.out = fixURL(str.once)]
    /\ UNCHANGED bridgeVars
    /\ UNCHANGED <<metaVars, reg, pf, fetches, note, config, verdict>>

\* the /og/ handler takes its target from the path of the request
OgExtract ==
    /\ str.fn = "path"
    /\ str' = [str EXCEPT !.fn = "target", !.out = extractedURL(str.in)]
    /\ UNCHANGED bridgeVars
    /\ UNCHANGED <<metaVars, reg, pf, fetches, note, config, verdict>>

\* -------------------------------------------------------- allowlist relays
DEFAULT_MAX_SIZE == 10000

\* public keys in hex, two characters each; "A9" is "a9" in upper case
KeyA == <<"a", "9">>

KeyAUpper == <<"A", "9">>

KeyB == <<"6", "f">>

KeyC == <<"f", "d">>

KeyD == <<"2", "0">>

\* the simple case folding of a character
Fold(c) == IF c = "A" THEN "a" ELSE IF c = "F" THEN "f" ELSE c

\* strings.EqualFold
EqualFold(s, t) ==
    Len(s) = Len(t) /\ \A i \in 1..Len(s) : Fold(s[i]) = Fold(t[i])

\* the value of a decimal digit
DigitValue(c) == IF c = "0" THEN 0 ELSE IF c = "1" THEN 1 ELSE 5

IsDigit(c) == c \in {"0", "1", "5"}

RECURSIVE DigitsValue(_, _)
DigitsValue(s, acc) ==
    IF s = <<>> THEN acc ELSE DigitsValue(Tail(s), 10 * acc + DigitValue(s[1]))

\* strconv.Atoi: an optional sign and at least one digit, nothing else
Atoi(s) ==
    LET signed == s # <<>> /\ s[1] \in {"+", "-"}
        digits == IF signed THEN Tail(s) ELSE s
        ok == digits # <<>> /\ \A i \in 1..Len(digits) : IsDigit(digits[i])
    IN  IF ~ok THEN [ok |-> FALSE, n |-> 0]
        ELSE [ok |-> TRUE,
              n |-> IF signed /\ s[1] = "-" THEN 0 - DigitsValue(digits, 0)
                    ELSE DigitsValue(digits, 0)]

\* Relay.MaxSize of both relays
MaxSize(cfg) ==
    IF ~Atoi(cfg.MSize).ok THEN DEFAULT_MAX_SIZE ELSE Atoi(cfg.MSize).n

\* the value of MAX_SIZE in the environment: unset, 100, 15000, not a
\* number, a negative number
MSizes == {<<>>, <<"1", "0", "0">>, <<"1", "5", "0", "0", "0">>, <<"x">>, <<"-", "5">>}

\* the lists main builds: the keys of the environment, then the default keys
Allowlists13x == {env \o <<KeyA, KeyB>> : env \in {<<>>, <<KeyC>>, <<KeyAUpper>>}}

WhiteListsBasic ==
    {env \o <<KeyC, KeyA, KeyB, KeyD>> : env \in {<<>>, <<KeyC>>, <<KeyAUpper>>}}

\* the relay main starts: 13xRelayer or BasicRelay
Configs ==
    [relay : {"13xRelayer"}, list : Allowlists13x, MSize : MSizes]
    \cup [relay : {"BasicRelay"}, list : WhiteListsBasic, MSize : MSizes]

NoConfig == [relay |-> "", list |-> <<>>, MSize |-> <<>>]

\* the events offered to AcceptEvent: the public key and the length of the
\* JSON encoding
OfferedEvents ==
    [PubKey : {KeyA, KeyAUpper, KeyB, KeyC, <<"9", "6">>},
     size : {100, 101, 10000, 10001, 15000}]

\* AcceptEvent of 13xRelayer: the loop sets allowed at the first match
AcceptEvent13x(cfg, evt) ==
    LET allowed == \E i \in 1..Len(cfg.list) : EqualFold(cfg.list[i], evt.PubKey)
    IN  allowed /\ evt.size <= MaxSize(cfg)

\* AcceptEvent of BasicRelay: the loop returns false at the first entry that
\* is not the key of the event
AcceptEventBasic(cfg, evt) ==
    IF \E i \in 1..Len(cfg.list) : ~EqualFold(cfg.list[i], evt.PubKey)
    THEN FALSE
    ELSE evt.size <= MaxSize(cfg)

NoVerdict == [n |-> 0, evt |-> [PubKey |-> <<>>, size |-> 0], accepted |-> FALSE]

\* the server offers an event to the relay
OfferEvent13x(evt) ==
    /\ config.relay = "13xRelayer"
    /\ verdict' = [n |-> 1, evt |-> evt, accepted |-> AcceptEvent13x(config, evt)]
    /\ UNCHANGED bridgeVars
    /\ UNCHANGED <<metaVars, reg, pf, fetches, note, str, config>>

OfferEventBasic(evt) ==
    /\ config.relay = "BasicRelay"
    /\ verdict' = [n |-> 1, evt |-> evt, accepted |-> AcceptEventBasic(config, evt)]
    /\ UNCHANGED bridgeVars
    /\ UNCHANGED <<metaVars, reg, pf, fetches, note, str, config>>

\* ------------------------------------------------------- the state at rest
\* no call was recorded and no relay of the allowlist programs is configured
NoCalls ==
    /\ pf = NoCall
    /\ fetches = [u \in URLs |-> 0]
    /\ note = NoNote
    /\ str = NoStr
    /\ config = NoConfig
    /\ verdict = NoVerdict

\* the bridge and the /og/ endpoint after Relay.Init has set its fields; the
\* keys of the empty metadata cache are set by each specification
InitRest ==
    /\ db = [k \in Pubkeys |-> NoEntity]
    /\ feedCache = [u \in URLs |-> NoFeed]
    /\ lastEmitted = [u \in URLs |-> NoValue]
    /\ now = StartNow
    /\ poller = PollerAt("none", <<>>)
    /\ emitted = {}
    /\ delivered = {}
    /\ lastFilter = NoFilter
    /\ result = <<>>
    /\ og = [r \in Requests |-> OgIdle]
    /\ clock = 0
    /\ ogLog = NoLog
    /\ lastDelete = NoDelete
    /\ reg = NoReg

\* ----------------------------------------------------------- specification
\* the outcomes of evt.Sign: it returns nil, or an error
SignOutcomes == BOOLEAN

\* Sign returns nil
SignSucceeds == {TRUE}

Init ==
    /\ db = [k \in Pubkeys |-> NoEntity]
    /\ feedCache = [u \in URLs |-> NoFeed]
    /\ lastEmitted = [u \in URLs |-> NoValue]
    /\ now = StartNow
    /\ poller = PollerAt("none", <<>>)
    /\ emitted = {}
    /\ delivered = {}
    /\ lastFilter = NoFilter
    /\ result = <<>>
    /\ og = [r \in Requests |-> OgIdle]
    /\ mdCache = [u \in MdURLs |-> NoEntry]
    /\ clock = 0
    /\ ogLog = NoLog
    /\ lastDelete = NoDelete
    /\ reg = NoReg
    /\ NoCalls

Next ==
    \/ \E get \in [URLs -> DirectResponses], fetch \in FetchChoices(feedCache) :
          RelayInit(get, fetch)
    \/ \E filters \in ListeningFilterLists : PollWake(filters)
    \/ \E fetch \in FetchChoices(feedCache) : PollAuthor(fetch)
    \/ PollLoad
    \/ \E ok \in SignSucceeds : PollCheck(ok)
    \/ \E filter \in PollerQueryFilters :
          \E mdTime \in MdTimesFor(filter), fetch \in FetchChoices(feedCache),
             ok \in SignSucceeds :
                QueryEvents(filter, mdTime, fetch, ok)
    \/ \E u \in URLs : CacheExpire(u)
    \/ Tick

Spec == Init /\ [][Next]_vars

\* the query path alone, with every filter of QueryFilters
NextQuery ==
    \/ \E get \in [URLs -> DirectResponses], fetch \in FetchChoices(feedCache) :
          RelayInit(get, fetch)
    \/ \E filter \in QueryFilters :
          \E mdTime \in MdTimesFor(filter), fetch \in FetchChoices(feedCache),
             ok \in SignSucceeds :
                QueryEvents(filter, mdTime, fetch, ok)
    \/ \E u \in URLs : CacheExpire(u)
    \/ Tick

SpecQuery == Init /\ [][NextQuery]_vars

\* the poller and the query path with a Sign that may return an error, at
\* one reading of the clock and without cache expiry
NextSign ==
    \/ \E get \in [URLs -> DirectResponses], fetch \in FetchChoices(feedCache) :
          RelayInit(get, fetch)
    \/ \E filters \in ListeningFilterLists : PollWake(filters)
    \/ \E fetch \in FetchChoices(feedCache) : PollAuthor(fetch)
    \/ PollLoad
    \/ \E ok \in SignOutcomes : PollCheck(ok)
    \/ \E filter \in SignQueryFilters :
          \E mdTime \in MdTimesFor(filter), fetch \in FetchChoices(feedCache),
             ok \in SignOutcomes :
                QueryEvents(filter, mdTime, fetch, ok)

SpecSign == Init /\ [][NextSign]_vars

\* the query path over feeds whose items lie outside the range of a uint32
NextWide ==
    \/ \E get \in [URLs -> DirectResponses], fetch \in WideFetchChoices(feedCache) :
          RelayInit(get, fetch)
    \/ \E filter \in WideQueryFilters :
          \E mdTime \in MdTimesFor(filter), fetch \in WideFetchChoices(feedCache),
             ok \in SignSucceeds :
                QueryEvents(filter, mdTime, fetch, ok)
    \/ \E u \in URLs : CacheExpire(u)
    \/ Tick

SpecWide == Init /\ [][NextWide]_vars

\* the /og/ endpoint: its handler, FetchMetaData and the cache goroutines
NextMeta ==
    \/ \E r \in Requests, url \in MdURLs : OgRequest(r, url)
    \/ \E r \in Requests, res \in HeadResponses : OgHead(r, res)
    \/ \E r \in Requests, res \in GetResponses : OgGet(r, res)
    \/ \E r \in Requests : OgInsert(r)
    \/ \E r \in Requests : OgDelete(r)
    \/ MdTick

SpecMeta == Init /\ [][NextMeta]_vars

\* registration alone, over the locators of SiteURLs
InitFeed ==
    /\ db = [k \in FeedPubkeys |-> NoEntity]
    /\ feedCache = [u \in FeedURLs |-> NoFeed]
    /\ lastEmitted = [u \in FeedURLs |-> NoValue]
    /\ now = StartNow
    /\ poller = PollerAt("none", <<>>)
    /\ emitted = {}
    /\ delivered = {}
    /\ lastFilter = NoFilter
    /\ result = <<>>
    /\ og = [r \in Requests |-> OgIdle]
    /\ mdCache = [u \in MdURLs |-> NoEntry]
    /\ clock = 0
    /\ ogLog = NoLog
    /\ lastDelete = NoDelete
    /\ reg = NoReg
    /\ NoCalls

NextFeed ==
    \/ \E url \in SiteURLs :
          \E resp \in SiteResponses(url), fetch \in FeedFetchChoices(feedCache) :
             RegisterFeed(url, resp, fetch)
    \/ \E u \in FeedURLs : CacheExpire(u)

SpecFeed == InitFeed /\ [][NextFeed]_vars

\* the calls of parseFeed against origins that answer anything at any time
NextCache ==
    \/ \E u \in URLs, fetch \in [URLs -> OriginStates] : ParseFeedCall(u, fetch)
    \/ \E u \in URLs : CacheExpire(u)

SpecCache == Init /\ [][NextCache]_vars

\* the synthesis of text notes from items, at any reading of the clock
NextSynth ==
    \/ \E item \in SynthItems : Synthesize(item)
    \/ Tick

SpecSynth == Init /\ [][NextSynth]_vars

\* fixURL and the target extraction of the /og/ handler over every string
\* of FixInputs and every target of Targets
InitURL ==
    /\ InitRest
    /\ mdCache = [u \in MdURLs |-> NoEntry]
    /\ pf = NoCall
    /\ fetches = [u \in URLs |-> 0]
    /\ note = NoNote
    /\ str \in StrInputs
    /\ config = NoConfig
    /\ verdict = NoVerdict

NextURL ==
    \/ FixForHead
    \/ FixForGet
    \/ OgExtract

SpecURL == InitURL /\ [][NextURL]_vars

\* the /og/ endpoint with two target URLs, origins that answer the HEAD with
\* an HTML type or not at all and the GET with status 200 or 404
LeakURLs == {"p1", "p2"}

LeakHeadResponses == {res \in HeadResponses : res.err \/ (res.StatusCode = 200 /\ res.ct = ApplicationXhtml)}

LeakGetResponses == {res \in GetResponses : ~res.err /\ (res.StatusCode = 404 \/ (res.StatusCode = 200 /\ res.doc))}

InitLeak ==
    /\ InitRest
    /\ mdCache = [u \in LeakURLs |-> NoEntry]
    /\ NoCalls

NextLeak ==
    \/ \E r \in Requests, url \in LeakURLs : OgRequest(r, url)
    \/ \E r \in Requests, res \in LeakHeadResponses : OgHead(r, res)
    \/ \E r \in Requests, res \in LeakGetResponses : OgGet(r, res)
    \/ \E r \in Requests : OgInsert(r)
    \/ \E r \in Requests : OgDelete(r)
    \/ MdTick

SpecLeak == InitLeak /\ [][NextLeak]_vars

\* the same, where time passes and every goroutine that can run does run:
\* a record to insert is inserted, a timer that is due fires
SpecLeakFair ==
    /\ InitLeak /\ [][NextLeak]_vars
    /\ WF_vars(\E r \in Requests : OgInsert(r))
    /\ WF_vars(\E r \in Requests : OgDelete(r))
    /\ WF_vars(MdTick)

\* the two allowlist relays, as main configures them
InitAccept ==
    /\ InitRest
    /\ mdCache = [u \in MdURLs |-> NoEntry]
    /\ pf = NoCall
    /\ fetches = [u \in URLs |-> 0]
    /\ note = NoNote
    /\ str = NoStr
    /\ config \in Configs
    /\ verdict = NoVerdict

NextAccept ==
    \/ \E evt \in OfferedEvents : OfferEvent13x(evt)
    \/ \E evt \in OfferedEvents : OfferEventBasic(evt)

SpecAccept == InitAccept /\ [][NextAccept]_vars

\* ------------------------------------------------------------------ claims
\* the feed URL of the author the pass is at
PollURL == db[Head(poller.work)].URL

\* the pass takes the step that follows its eligibility test
PollCheckStep == poller.pc = "check" /\ poller' # poller

\* a <= b for two values of the watermark map, an absent value being the least
ValueLeq(a, b) ==
    \/ a = NoValue
    \/ (b # NoValue /\ ~Before(ValueTime(b), ValueTime(a)))

\* the latest resolved timestamp of a batch of items synthesized at time t
RECURSIVE BatchMax(_, _)
BatchMax(items, t) ==
    IF Len(items) = 1 THEN ResolveCreatedAt(items[1], t)
    ELSE LET m == BatchMax(Tail(items), t)
             c == ResolveCreatedAt(items[1], t)
         IN  IF Before(c, m) THEN m ELSE c

C2_WatermarkNeverDecreases ==
    [][\A u \in URLs : ValueLeq(lastEmitted[u], lastEmitted'[u])]_vars

\* C3: when the pass emits an item of a feed, the watermark of the feed URL
\* becomes the latest resolved timestamp of the whole batch of that feed.
C3_WatermarkIsBatchMax ==
    [][(PollCheckStep /\ PollEmits(poller.last, poller.evt.CreatedAt))
          => /\ lastEmitted'[PollURL] # NoValue
             /\ ValueTime(lastEmitted'[PollURL]) = BatchMax(poller.feed, now)]_vars

\* C4: the pass pushes an item only if its resolved timestamp is strictly
\* after the watermark that the eligibility test read for its feed URL.
C4_EmitOnlyAfterWatermark ==
    [][\A e \in emitted' \ emitted :
          /\ poller.pc = "check"
          /\ poller.last # NoValue
          /\ e.Content = poller.evt.Content
          /\ Before(ValueTime(poller.last), poller.evt.CreatedAt)]_vars

\* an item of second 2 went out while the watermark stood at second 1
C4_Witness ==
    \E e \in emitted :
        /\ e.Content = 2
        /\ lastEmitted[db[e.PubKey].URL] = Uint32Value(1)

\* C5: an item that the pass meets while its feed URL has no watermark is
\* eligible: the pass pushes it.
C5_AbsentWatermarkAllEligible ==
    [][(poller.pc = "load" /\ poller' # poller /\ lastEmitted[PollURL] = NoValue)
          => \E e \in emitted' :
                /\ e.PubKey = Head(poller.work)
                /\ e.Content = poller.feed[poller.i].id]_vars

\* C6: when the pass stores the watermark, the map still holds the value
\* that the pass loaded: no write of another operation lies between the read
\* and the write.
C6_AtomicReadThenWrite ==
    [][(PollCheckStep /\ PollEmits(poller.last, poller.evt.CreatedAt))
          => lastEmitted[PollURL] = poller.last]_vars

\* C7: a QueryEvents call (the one operation that writes the watermark and
\* leaves the poller where it is) never lowers the watermark of a feed URL.
C7_QueryAdvancesWatermark ==
    [][poller' = poller
          => \A u \in URLs : ValueLeq(lastEmitted[u], lastEmitted'[u])]_vars

\* C8: the poller goroutine never stops: it never returns.
C8_PollerNeverStops == poller.pc # "done"

\* a step of QueryEvents under SpecQuery: not RelayInit (poller), not Tick
\* (now), not CacheExpire (an entry goes)
QueryStep ==
    /\ poller' = poller
    /\ now' = now
    /\ \A u \in URLs : feedCache[u].present => feedCache'[u].present

InRange(filter, t) ==
    /\ (filter.Since # Nil => ~Before(t, filter.Since[1]))
    /\ (filter.Until # Nil => ~Before(filter.Until[1], t))

\* C9: a query by authors, kinds and time range returns, for every author
\* with a stored entity and a parsed feed, every item of the feed in the
\* time range as a text note, when the kinds are nil or contain text-note.
C9_QueryCompleteForTextNotes ==
    [][(QueryStep /\ ~lastFilter'.IDs /\ ~lastFilter'.Tags
           /\ KindWanted(lastFilter', KindTextNote))
          => \A pk \in Range(lastFilter'.Authors) :
                (db[pk] # NoEntity /\ feedCache'[db[pk].URL].present)
                   => \A item \in Range(feedCache'[db[pk].URL].Items) :
                         InRange(lastFilter', ResolveCreatedAt(item, now))
                            => \E j \in 1..Len(result') :
                                  /\ result'[j].PubKey = pk
                                  /\ result'[j].Kind = KindTextNote
                                  /\ result'[j].Content = item.id]_vars

\* C10: every event that QueryEvents returns has a public key of
\* filter.Authors, a kind that filter.Kinds accepts, and a timestamp not
\* before filter.Since and not after filter.Until when these are set.
C10_QuerySound ==
    \A j \in 1..Len(result) :
        /\ result[j].PubKey \in Range(lastFilter.Authors)
        /\ (lastFilter.Kinds = Nil \/ result[j].Kind \in lastFilter.Kinds[1])
        /\ InRange(lastFilter, result[j].CreatedAt)

\* a query with kinds, since and until set has returned an event
C10_Witness ==
    /\ Len(result) > 0
    /\ lastFilter.Kinds # Nil
    /\ lastFilter.Since # Nil
    /\ lastFilter.Until # Nil

\* C11: the timer of an earlier insertion deletes the entry that a later
\* insertion of another request stored under the same key: when it fires
\* while the key holds such an entry, the entry is gone afterwards, and if
\* that entry was stored after the timer was started, it is gone less than
\* the lifetime MdTTL after its insertion.
C11_StaleTimerDeletesNewerEntry ==
    [][\A r \in Requests :
          (/\ og[r].pc = "sleep"
           /\ og'[r].pc # "sleep"
           /\ mdCache[og[r].url].present
           /\ mdCache[og[r].url].by # r)
          => /\ ~mdCache'[og[r].url].present
             /\ (mdCache[og[r].url].at > og[r].due - MdTTL
                   => clock - mdCache[og[r].url].at < MdTTL)]_vars

\* an entry of another request was deleted before its lifetime had passed
C11_Witness == lastDelete.stale /\ lastDelete.age < MdTTL

\* the content type contains none of the three accepted media types
TypeOutside(ct) ==
    \A typ \in {TextHtml, ApplicationXhtml, ApplicationXml} :
        \A i \in 1..(Len(ct) - Len(typ) + 1) : SubSeq(ct, i, i + Len(typ) - 1) # typ

\* the request of ogLog went to the origin and its HEAD was answered
HeadAnswered == ogLog.url # "" /\ ~ogLog.hit /\ ~ogLog.head.err

\* C12: when the content type of the HEAD response contains none of
\* text/html, application/xhtml+xml and application/xml, FetchMetaData
\* returns the invalid-format error and has issued no GET.
C12_ContentTypeGate ==
    (HeadAnswered /\ TypeOutside(ogLog.head.ct))
       => /\ ogLog.err = ErrInvalidFormat
          /\ ogLog.gets = 0

\* a HEAD answered with 200 and application/json ended in the invalid-format
\* error
C12_Witness ==
    /\ HeadAnswered
    /\ ogLog.head.StatusCode = 200
    /\ ogLog.head.ct = ApplicationJson
    /\ ogLog.err = ErrInvalidFormat

\* C13: when the HEAD response has a status that is not 2xx, FetchMetaData
\* returns the invalid-format error and has issued no GET, whatever the
\* content type of the response.
C13_StatusGate ==
    (HeadAnswered /\ ~(ogLog.head.StatusCode \in 200..299))
       => /\ ogLog.err = ErrInvalidFormat
          /\ ogLog.gets = 0

\* the status that the outcome of a request calls for: 200 for a cached key
\* or a successful fetch, 404 for a GET answered with 404, 400 otherwise
StatusFor(log) ==
    IF log.hit THEN 200
    ELSE IF log.head.err \/ TypeOutside(log.head.ct) THEN 400
    ELSE IF log.get.err THEN 400
    ELSE IF log.get.StatusCode = 404 THEN 404
    ELSE IF log.get.StatusCode # 200 \/ ~log.get.doc THEN 400
    ELSE 200

C16_EveryRequestHasTimeout ==
    \A r \in Requests : og[r].pc \in {"head", "get"} => og[r].timeout # Nil

\* the feed fetch of the last registration had a feed to return
RegFeedFetched == reg.cached \/ reg.origin

\* C15: when the page of a locator is HTML and its feed link has a
\* root-relative href, a registration that gets its feed stores an entity
\* whose feed URL is the scheme and host of the page followed by the href,
\* under the public key of the private key derived from that feed URL.
C15_RootRelativeHrefResolved ==
    (/\ reg.resp.ok
     /\ Contains(reg.resp.ct, TextHtml)
     /\ reg.resp.href = RootHref
     /\ RegFeedFetched
     /\ privateKeyFromFeed(reg.feedurl) \notin InvalidKeys)
       => LET page == UrlParse(reg.url)
              expected == UrlString([page EXCEPT !.path = reg.resp.href.segs])
              sk == privateKeyFromFeed(expected)
          IN  db[GetPublicKey(sk)] = Entity(sk, expected)

\* C19: after every registration, each stored entity sits under the public
\* key of its private key, its private key is the one derived from its feed
\* URL, no feed URL has two entities, and a registration of a feed URL that is
\* stored already leaves the store as it is.
C19_RegistrationIdempotent ==
    [][/\ \A k \in DOMAIN db' :
             db'[k] # NoEntity
                => /\ k = GetPublicKey(db'[k].PrivateKey)
                   /\ db'[k].PrivateKey = privateKeyFromFeed(db'[k].URL)
                   /\ \A k2 \in DOMAIN db' : db'[k2].URL = db'[k].URL => k2 = k
       /\ (reg'.again => db' = db)]_vars

\* a feed URL found through the link of a page was registered a second time
C19_Witness ==
    /\ reg.again
    /\ reg.feedurl # reg.url
    /\ \E k \in DOMAIN db : db[k].URL = reg.feedurl

\* the registration of reg failed: no feed URL, no feed, or no public key
RegFailed(r) ==
    /\ r.url # ""
    /\ \/ r.feedurl = ""
       \/ ~(r.cached \/ r.origin)
       \/ privateKeyFromFeed(r.feedurl) \in InvalidKeys

\* C20: a registration that fails, because the locator finds no feed URL,
\* the feed cannot be fetched or parsed, or no public key can be derived,
\* leaves the entity store unchanged.
C20_FailedRegistrationWritesNothing ==
    [][RegFailed(reg') => db' = db]_vars

\* a registration failed on the public key while the store held an entity
C20_Witness ==
    /\ reg.feedurl # ""
    /\ RegFeedFetched
    /\ privateKeyFromFeed(reg.feedurl) \in InvalidKeys
    /\ \E k \in DOMAIN db : db[k] # NoEntity

\* C18: every event that the poller pushes and every event that QueryEvents
\* returns carries the signature made with the private key of the entity
\* stored under its public key.
C18_EveryEventSigned ==
    /\ \A e \in emitted \cup delivered :
          e.Sig # "" /\ e.Sig = db[e.PubKey].PrivateKey
    /\ \A j \in 1..Len(result) :
          result[j].Sig # "" /\ result[j].Sig = db[result[j].PubKey].PrivateKey

\* the latest of a non-empty set of times
MaxTime(S) == CHOOSE m \in S : \A x \in S : ~Before(m, x)

\* the resolved timestamps of the items of a feed that a filter lets through
TimesInRange(filter, items, t) ==
    {ResolveCreatedAt(item, t) : item \in
        {i \in Range(items) : InRange(filter, ResolveCreatedAt(i, t))}}

\* C17: the watermark that a query for text notes records for a feed URL is
\* the latest timestamp of the items it returned, exactly, for timestamps
\* at or above 2^32 and below zero as for all others.
C17_WatermarkExact ==
    [][(QueryStep /\ ~lastFilter'.IDs /\ ~lastFilter'.Tags
           /\ lastFilter'.Kinds = Some({KindTextNote}))
          => \A pk \in Range(lastFilter'.Authors) :
                (/\ db[pk] # NoEntity
                 /\ feedCache'[db[pk].URL].present
                 /\ TimesInRange(lastFilter', feedCache'[db[pk].URL].Items, now) # {})
                   => /\ lastEmitted'[db[pk].URL] # NoValue
                      /\ ValueTime(lastEmitted'[db[pk].URL]) =
                            MaxTime(TimesInRange(lastFilter',
                                                 feedCache'[db[pk].URL].Items, now))]_vars

\* the step is a call of parseFeed
ParseFeedStep == pf'.n = pf.n + 1

\* C21: a call of parseFeed for a URL whose feed is in the cache returns the
\* stored feed, whatever the origin would answer, and does not call the
\* fetch: the count of fetches of that URL is the same after the call
C21_CacheHitDoesNotFetch ==
    [][ (ParseFeedStep /\ feedCache[pf'.url].present)
           => /\ pf'.ok
              /\ pf'.Items = feedCache[pf'.url].Items
              /\ fetches' = fetches
              /\ feedCache' = feedCache ]_vars

\* a second call was answered from the cache after the first one fetched
C21_Witness == pf.n = 2 /\ pf.hit /\ pf.ok /\ pf.Items # <<>> /\ fetches[pf.url] = 1

\* C22: a call of parseFeed whose fetch fails returns the error and leaves
\* the cache as it was, and the call of parseFeed for that URL that follows
\* a failed one asks the origin again
C22_FailureNotCached ==
    [][ ParseFeedStep
           => /\ ~pf'.ok => (feedCache' = feedCache /\ pf'.Items = <<>>)
              /\ (pf.n > 0 /\ ~pf.ok /\ pf'.url = pf.url)
                    => (~pf'.hit /\ fetches'[pf.url] = fetches[pf.url] + 1) ]_vars

\* two calls in a row failed, and the origin was asked both times
C22_Witness == pf.n = 2 /\ ~pf.ok /\ fetches[pf.url] = 2 /\ ~feedCache[pf.url].present

\* the content of the note before the blank line and the link, and what the
\* item gives before any truncation
NoteBody(n) == Slice(n.evt.Content, 0, ByteLen(n.evt.Content) - 2 - ByteLen(n.item.Link))

NoteTail(n) ==
    Slice(n.evt.Content, ByteLen(n.evt.Content) - 2 - ByteLen(n.item.Link),
          ByteLen(n.evt.Content))

BuiltLen(item) ==
    (IF item.Title # <<>> THEN ByteLen(item.Title) + 6 ELSE 0) + item.Description.text

C24_TimestampOverrideChain ==
    note # Nil =>
        LET n == note[1]
        IN  n.evt.CreatedAt =
               IF n.item.PublishedParsed # Nil THEN n.item.PublishedParsed[1]
               ELSE IF n.item.UpdatedParsed # Nil THEN n.item.UpdatedParsed[1]
               ELSE n.t

\* an item updated after it was published got its published time
C24_Witness ==
    /\ note # Nil
    /\ note[1].item.PublishedParsed # Nil /\ note[1].item.UpdatedParsed # Nil
    /\ Before(note[1].item.PublishedParsed[1], note[1].item.UpdatedParsed[1])
    /\ note[1].evt.CreatedAt = note[1].item.PublishedParsed[1]

\* url starts with the scheme and ":/" and no second slash follows
SingleSlash(url, scheme) ==
    /\ HasPrefix(url, scheme \o <<":", "/">>)
    /\ ~HasPrefix(url, scheme \o <<":", "/", "/">>)

\* url with a second slash put behind the scheme
Doubled(url, scheme) ==
    scheme \o <<":", "/", "/">> \o SubSeq(url, Len(scheme) + 3, Len(url))

\* C25: fixURL turns a URL that starts with http:/ or https:/ and no second
\* slash into the form with two slashes and returns every other URL as it
\* is, and the second normalization FetchMetaData applies for the GET
\* request gives the URL of the HEAD request: fixURL(fixURL(u)) = fixURL(u)
C25_FixURLIdempotent ==
    str.fn \in {"head", "get"} =>
        /\ str.once = IF SingleSlash(str.in, <<"http">>) THEN Doubled(str.in, <<"http">>)
                      ELSE IF SingleSlash(str.in, <<"http", "s">>)
                      THEN Doubled(str.in, <<"http", "s">>)
                      ELSE str.in
        /\ str.fn = "get" => str.out = str.once

\* https:/x was rewritten once, for the HEAD request, and not again
C25_Witness ==
    /\ str.fn = "get"
    /\ str.in = <<"http", "s", ":", "/", "x">>
    /\ str.out = <<"http", "s", ":", "/", "/", "x">>

\* the step keeps a pending timer for every key in the cache, and a request
\* whose fetch failed has inserted nothing and started no timer
TimerForEveryEntry ==
    /\ \A u \in LeakURLs :
          mdCache'[u].present
             => \E r \in Requests : og'[r].pc = "sleep" /\ og'[r].url = u
    /\ \A r \in Requests :
          (og[r].pc \in {"head", "get"} /\ og'[r].pc = "idle")
             => /\ mdCache' = mdCache
                /\ \A q \in Requests : og'[q].pc = "sleep" => og[q].pc = "sleep"

\* a timer for the key u is pending and falls due within the time the model
\* follows
TimerWithin(u) ==
    \E r \in Requests : og[r].pc = "sleep" /\ og[r].url = u /\ og[r].due <= MaxClock

\* C26: every key present in the metadata cache has a pending deletion timer
\* for that key, so that every entry is deleted in the end; a request whose
\* fetch fails inserts nothing and starts no timer
C26_EveryEntryHasTimer ==
    /\ [][TimerForEveryEntry]_vars
    /\ \A u \in LeakURLs :
          (mdCache[u].present /\ TimerWithin(u)) ~> ~mdCache[u].present

\* an entry inserted after an earlier one was deleted is in the cache, and a
\* fetch has failed since
C26_Witness ==
    /\ mdCache["p1"].present /\ ~mdCache["p2"].present
    /\ TimerWithin("p1")
    /\ \E r \in Requests : og[r].pc = "sleep" /\ og[r].url = "p1"
    /\ lastDelete # NoDelete
    /\ ogLog # NoLog /\ ogLog.url = "p2" /\ ogLog.err # NoError

\* C27: the target of the /og/ handler is the path of the request without
\* its one leading "/og/", for every target
C27_TargetIsPathWithoutPrefix ==
    str.fn = "target" => OgPrefix \o str.out = str.in

\* the decision the claim calls for: the key is in the list, letter case
\* aside, and the encoding is not longer than MaxSize
KeyListed(cfg, evt) == \E i \in 1..Len(cfg.list) : EqualFold(cfg.list[i], evt.PubKey)

ConfiguredMax(cfg) ==
    IF cfg.MSize \in {<<"1", "0", "0">>} THEN 100
    ELSE IF cfg.MSize \in {<<"1", "5", "0", "0", "0">>} THEN 15000
    ELSE IF cfg.MSize \in {<<"-", "5">>} THEN 0 - 5
    ELSE 10000

\* C28: AcceptEvent of an allowlist relay accepts an event exactly when its
\* public key equals, letter case aside, an entry of the list and its JSON
\* encoding is at most MaxSize bytes; with two or more distinct keys in the
\* list an event of any listed key is accepted
C28_AcceptIffListedAndSmall ==
    verdict.n > 0 =>
        (verdict.accepted <=>
            (KeyListed(config, verdict.evt) /\ verdict.evt.size <= ConfiguredMax(config)))

====
